---- MODULE Spec2Model ----
(***************************************************************************)
(* State-machine model of src/extension.js (class TaskTimerProvider):      *)
(* countdown timers with setInterval callbacks, a task checklist, the      *)
(* persisted globalState mirror, the two status-bar items and the webview  *)
(* panel.  Time is in milliseconds, as Date.now() is.                      *)
(***************************************************************************)
EXTENDS Integers, Sequences, FiniteSets, TLC

\* ------------------------------------------------------------------ bounds
MaxTimers == 2
MaxTasks == 2
MaxPending == 2
MaxAdvances == 2
MaxTaskAdvances == 1

\* ------------------------------------------------------- program constants
\* setInterval(..., 1000)
TickMs == 1000
\* 60 * 1000
MinuteMs == 60 * 1000

\* ------------------------------------------------------------------ inputs
\* What the user can type into the label prompt ("" is an empty submit).
LabelInputs == {"A", ""}
\* Labels the stop-timer command can be called with.
StopInputs == {"A", "A*", "Z"}
\* What the user can type into the minutes prompt, as sequences of characters.
MinuteInputs == {<<"1">>, <<"2">>, <<"1", "x">>, <<"0">>, <<"x">>, <<>>}
\* What the user can type into the task prompt or the panel's edit field.
DescriptionInputs == {"x", ""}
\* Indices the task commands can be called with.
IndexInputs == -1 .. MaxTasks
\* How far the wall clock moves between two events of the loop.
Delays == {TickMs, MinuteMs - TickMs}

VARIABLES
    now,          \* Date.now()
    advances,     \* how many times the clock has moved (bounds the run)
    timers,       \* this.timers: sequence of [label, endTime, timerInterval]
    intervals,    \* armed setInterval callbacks with their closures
    tasks,        \* this.tasks: sequence of [description, completed]
    store,        \* context.globalState: [activeTimers, tasks]
    timerText,    \* this.timerStatusBarItem.text
    taskText,     \* this.taskStatusBarItem.text
    webviewView,  \* this.webviewView is set (a panel view is attached)
    panel,        \* the last message posted to the webview
    pending,      \* commands suspended at an input prompt (await showInputBox)
    last          \* the operation that ran last and what it emitted

vars == <<now, advances, timers, intervals, tasks, store, timerText, taskText,
          webviewView, panel, pending, last>>

\* ----------------------------------------------------------- pure helpers
\* JavaScript's % : the remainder takes the sign of the dividend.
JsRem(a, b) == IF a >= 0 THEN a % b ELSE -((-a) % b)

\* Math.floor(a / b) for b > 0.
FloorDiv(a, b) == a \div b

\* The value of a decimal digit character, -1 when it is no digit.
DigitVal(c) ==
    CASE c = "0" -> 0 [] c = "1" -> 1 [] c = "2" -> 2 [] c = "3" -> 3
      [] c = "4" -> 4 [] c = "5" -> 5 [] c = "6" -> 6 [] c = "7" -> 7
      [] c = "8" -> 8 [] c = "9" -> 9 [] OTHER -> -1

RECURSIVE ParseDigits(_, _, _)
ParseDigits(s, i, acc) ==
    IF i > Len(s) \/ DigitVal(s[i]) < 0 THEN acc
    ELSE ParseDigits(s, i + 1, acc * 10 + DigitVal(s[i]))

\* parseInt(value): the leading decimal digits; NaN (here -1) when there are none.
NaN == -1
ParseInt(s) ==
    IF Len(s) = 0 \/ DigitVal(s[1]) < 0 THEN NaN ELSE ParseDigits(s, 1, 0)

\* validateInput of the minutes prompt: TRUE when the input box accepts the value.
ValidateInput(value) == ~(ParseInt(value) = NaN \/ ParseInt(value) <= 0)

\* this.timers.some(t => t.label === label)
HasLabel(ts, label) == \E i \in DOMAIN ts : ts[i].label = label

\* while (this.timers.some(t => t.label === label)) label += '*'
DedupNone(label, ts) == label
DedupAlways(label, ts) == label \o "*"
RECURSIVE Dedup(_, _)
Dedup(label, ts) ==
    IF HasLabel(ts, label) THEN Dedup(label \o "*", ts) ELSE label

\* Filters that keep every timer, or none.
RemoveLabelNone(ts, label) == ts
RemoveLabelAll(ts, label) == <<>>

\* this.timers.filter(t => t.label !== label)
RemoveLabel(ts, label) == SelectSeq(ts, LAMBDA t : t.label # label)

\* this.timers.find(timer => timer.label === label): its index, 0 when none.
FindTimer(ts, label) ==
    IF HasLabel(ts, label)
    THEN CHOOSE i \in DOMAIN ts :
            /\ ts[i].label = label
            /\ \A j \in 1 .. (i - 1) : ts[j].label # label
    ELSE 0

\* A sort that leaves the array in insertion order.
SortNone(ts) == ts

\* A sort that reverses the array at every call.
SortReverse(ts) == [i \in DOMAIN ts |-> ts[Len(ts) + 1 - i]]

\* Array.prototype.sort((a, b) => a.endTime - b.endTime): stable, by endTime.
RECURSIVE InsertTimer(_, _)
InsertTimer(sorted, t) ==
    IF sorted = <<>> THEN <<t>>
    ELSE IF sorted[Len(sorted)].endTime <= t.endTime THEN Append(sorted, t)
    ELSE Append(InsertTimer(SubSeq(sorted, 1, Len(sorted) - 1), t),
                sorted[Len(sorted)])

RECURSIVE SortTimers(_)
SortTimers(ts) ==
    IF ts = <<>> THEN <<>>
    ELSE InsertTimer(SortTimers(SubSeq(ts, 1, Len(ts) - 1)), ts[Len(ts)])

\* The timer status-bar text: 'No active timers', or the count with the label
\* and minutes:seconds of the first timer after the sort.
NoTimersText == [text |-> "No active timers", count |-> 0, label |-> "",
                 minutesLeft |-> 0, secondsLeft |-> 0]
TimerStatusText(ts, t) ==
    IF Len(ts) = 0 THEN NoTimersText
    ELSE LET nextTimer == SortTimers(ts)[1]
             remainingTime == nextTimer.endTime - t
         IN  [text |-> "active timer(s)", count |-> Len(ts),
              label |-> nextTimer.label,
              minutesLeft |-> FloorDiv(remainingTime, MinuteMs),
              secondsLeft |-> FloorDiv(JsRem(remainingTime, MinuteMs), TickMs)]

\* The task status-bar text: '<completed>/<total> tasks completed' or 'No tasks'.
NoTasksText == [text |-> "No tasks", completed |-> 0, total |-> 0]
TaskStatusText(tk) ==
    IF Len(tk) > 0
    THEN [text |-> "tasks completed",
          completed |-> Len(SelectSeq(tk, LAMBDA t : t.completed)),
          total |-> Len(tk)]
    ELSE NoTasksText

\* timers.map(timer => ({label, endTime})): what globalState keeps of a timer.
SerializeTimers(ts) ==
    [i \in DOMAIN ts |-> [label |-> ts[i].label, endTime |-> ts[i].endTime]]

\* The 'update' message of sendDataToWebview.
UpdateMessage(ts, tk, t) ==
    [command |-> "update",
     tasks |-> tk,
     timers |-> [i \in DOMAIN ts |->
                    [label |-> ts[i].label,
                     remaining |-> FloorDiv(ts[i].endTime - t, MinuteMs)]]]
NoMessage == [command |-> "none", tasks |-> <<>>, timers |-> <<>>]

\* clearInterval(id)
ClearIntervalNoop(ivs, id) == ivs
ClearInterval(ivs, id) == {iv \in ivs : iv.id # id}

\* A fresh interval handle: one that no armed callback and no timer record holds.
UsedIds == {iv.id : iv \in intervals} \cup {timers[i].timerInterval : i \in DOMAIN timers}
NewId(used) == CHOOSE n \in 1 .. (Cardinality(used) + 1) : n \notin used

\* index >= 0 && index < this.tasks.length
InRangeNoLower(index, tk) == index < Len(tk)
InRange(index, tk) == index >= 0 /\ index < Len(tk)

\* A splice that drops the last element whatever the index.
SpliceLast(tk, index) == SubSeq(tk, 1, Len(tk) - 1)

\* this.tasks.splice(index, 1): a negative index counts from the end.
Splice(tk, index) ==
    LET start == IF index < 0 THEN (IF Len(tk) + index < 0 THEN 0 ELSE Len(tk) + index)
                 ELSE (IF index > Len(tk) THEN Len(tk) ELSE index)
    IN  SubSeq(tk, 1, start) \o SubSeq(tk, start + 2, Len(tk))

\* A test that takes no input for a dismissed or empty one.
FalsyNever(input) == FALSE

\* !label, !minutesStr, !task on what showInputBox resolved to: true for the
\* empty string (and for the undefined of a dismissed box, see PromptCancel).
Falsy(input) == input = ""

\* Messages shown to the user.
Notify(label) == [via |-> "notifier", message |-> label \o " timer has completed."]
InfoCompleted(label) == [via |-> "info", message |-> label \o " timer has completed."]
InfoStopped(label) == [via |-> "info", message |-> label \o " timer stopped."]
InfoCleared == [via |-> "info", message |-> "All timers cleared."]
ErrorNotFound(label) ==
    [via |-> "error", message |-> "No timer found with label \"" \o label \o "\"."]

\* The record of the operation that ran last.
Last(op, req, label, n, kind, endTime, msgs, posted) ==
    [op |-> op, req |-> req, label |-> label, n |-> n, kind |-> kind,
     endTime |-> endTime, msgs |-> msgs, posted |-> posted]

Idle(op) == Last(op, "", "", 0, "", 0, {}, FALSE)

\* remainingTime <= 0
IsExpiredStrict(endTime, t) == endTime - t < 0
IsExpired(endTime, t) == endTime - t <= 0

\* ------------------------------------------------------------- view sync
\* updateStatusBar(): sorts this.timers in place and sets both texts.
UpdateStatusBar(ts, tk) ==
    /\ timers' = SortTimers(ts)
    /\ timerText' = TimerStatusText(ts, now)
    /\ taskText' = TaskStatusText(tk)

\* sendDataToWebview(): posts the update message when a view is attached.
SendDataToWebview(ts, tk) ==
    panel' = IF webviewView THEN UpdateMessage(ts, tk, now) ELSE panel

\* What updateViews() writes to globalState.
PersistTimersOnly(ts, tk) == [activeTimers |-> SerializeTimers(ts), tasks |-> store.tasks]
Persist(ts, tk) == [activeTimers |-> SerializeTimers(ts), tasks |-> tk]

\* updateViews(): status bar, webview, then the two globalState entries.
UpdateViews(ts, tk) ==
    /\ UpdateStatusBar(ts, tk)
    /\ SendDataToWebview(SortTimers(ts), tk)
    /\ store' = Persist(SortTimers(ts), tk)

RemoveAt(s, p) == SubSeq(s, 1, p - 1) \o SubSeq(s, p + 1, Len(s))

\* ------------------------------------------------------------ task actions
\* A push that puts the new task in front.
PushFront(tk, task) == <<[description |-> task, completed |-> FALSE]>> \o tk

\* this.tasks.push({ description: task, completed: false })
Push(tk, task) == Append(tk, [description |-> task, completed |-> FALSE])

\* addTask() up to its await: the input box is shown.
AddTaskCommand ==
    /\ pending' = Append(pending, [cmd |-> "addTask", stage |-> "task", label |-> ""])
    /\ last' = Idle("addTask.prompt")
    /\ UNCHANGED <<now, advances, timers, intervals, tasks, store, timerText,
                   taskText, webviewView, panel>>

\* addTask() after its await, with the text the user submitted.
AddTaskResolve(p, task) ==
    /\ pending[p].cmd = "addTask"
    /\ pending' = RemoveAt(pending, p)
    /\ IF Falsy(task)
       THEN /\ last' = Last("addTask", task, "", 0, "", 0, {}, FALSE)
            /\ UNCHANGED <<timers, tasks, store, timerText, taskText, panel>>
       ELSE /\ tasks' = Push(tasks, task)
            /\ UpdateViews(timers, tasks')
            /\ last' = Last("addTask", task, "", 0, "", 0, {}, webviewView)
    /\ UNCHANGED <<now, advances, intervals, webviewView>>

\* An edit that replaces the whole task by a fresh one.
SetDescriptionFresh(tk, index, description) ==
    [tk EXCEPT ![index + 1] = [description |-> description, completed |-> FALSE]]

\* this.tasks[index].description = description
SetDescription(tk, index, description) ==
    [tk EXCEPT ![index + 1].description = description]

\* editTask(index, description); tasks[index] of a missing element is undefined,
\* and assigning to its property throws before anything changes.
EditTask(index, description) ==
    /\ IF InRange(index, tasks) /\ (index + 1) \in DOMAIN tasks
       THEN /\ tasks' = SetDescription(tasks, index, description)
            /\ UpdateViews(timers, tasks')
            /\ last' = Last("editTask", description, "", index, "", 0, {}, webviewView)
       ELSE /\ last' = Last("editTask", description, "", index, "", 0, {}, FALSE)
            /\ UNCHANGED <<timers, tasks, store, timerText, taskText, panel>>
    /\ UNCHANGED <<now, advances, intervals, webviewView, pending>>

\* toggleTask(index)
ToggleTask(index) ==
    /\ IF InRange(index, tasks) /\ (index + 1) \in DOMAIN tasks
       THEN /\ tasks' = [tasks EXCEPT ![index + 1].completed = ~tasks[index + 1].completed]
            /\ UpdateViews(timers, tasks')
            /\ last' = Last("toggleTask", "", "", index, "", 0, {}, webviewView)
       ELSE /\ last' = Last("toggleTask", "", "", index, "", 0, {}, FALSE)
            /\ UNCHANGED <<timers, tasks, store, timerText, taskText, panel>>
    /\ UNCHANGED <<now, advances, intervals, webviewView, pending>>

\* deleteTask(index)
DeleteTask(index) ==
    /\ IF InRange(index, tasks)
       THEN /\ tasks' = Splice(tasks, index)
            /\ UpdateViews(timers, tasks')
            /\ last' = Last("deleteTask", "", "", index, "", 0, {}, webviewView)
       ELSE /\ last' = Last("deleteTask", "", "", index, "", 0, {}, FALSE)
            /\ UNCHANGED <<timers, tasks, store, timerText, taskText, panel>>
    /\ UNCHANGED <<now, advances, intervals, webviewView, pending>>

\* ----------------------------------------------------------- timer actions
\* startTimer() up to its first await: the label input box is shown.
StartTimerCommand ==
    /\ pending' = Append(pending, [cmd |-> "startTimer", stage |-> "label", label |-> ""])
    /\ last' = Idle("startTimer.prompt")
    /\ UNCHANGED <<now, advances, timers, intervals, tasks, store, timerText,
                   taskText, webviewView, panel>>

\* startTimer() between its two awaits: an empty label returns, any other
\* label opens the minutes input box.
StartTimerLabel(p, label) ==
    /\ pending[p].cmd = "startTimer" /\ pending[p].stage = "label"
    /\ pending' = IF Falsy(label) THEN RemoveAt(pending, p)
                  ELSE [pending EXCEPT ![p] = [cmd |-> "startTimer",
                                               stage |-> "minutes", label |-> label]]
    /\ last' = Idle("startTimer.label")
    /\ UNCHANGED <<now, advances, timers, intervals, tasks, store, timerText,
                   taskText, webviewView, panel>>

\* The closure of the setInterval callback of startTimer.
CreatedInterval(id, label, endTime) ==
    [id |-> id, kind |-> "created", label |-> label, endTime |-> endTime,
     due |-> now + TickMs]

\* startTimer() after its second await, with a value the input box accepted:
\* endTime, the label made unique, the callback armed, the timer pushed.
StartTimerMinutes(p, minutesStr) ==
    /\ pending[p].cmd = "startTimer" /\ pending[p].stage = "minutes"
    /\ ValidateInput(minutesStr)
    /\ LET minutes == ParseInt(minutesStr)
           endTime == now + minutes * MinuteMs
           label == Dedup(pending[p].label, timers)
           timerInterval == NewId(UsedIds)
       IN  /\ intervals' = intervals \cup {CreatedInterval(timerInterval, label, endTime)}
           /\ UpdateViews(Append(timers, [label |-> label, endTime |-> endTime,
                                          timerInterval |-> timerInterval]), tasks)
           /\ last' = Last("startTimer", pending[p].label, label, timerInterval,
                           "created", endTime, {}, webviewView)
    /\ pending' = RemoveAt(pending, p)
    /\ UNCHANGED <<now, advances, tasks, webviewView>>

\* An input box is dismissed (Esc): showInputBox resolves to undefined and the
\* command returns.
PromptCancel(p) ==
    /\ p \in DOMAIN pending
    /\ pending' = RemoveAt(pending, p)
    /\ last' = Idle(pending[p].cmd \o ".cancel")
    /\ UNCHANGED <<now, advances, timers, intervals, tasks, store, timerText,
                   taskText, webviewView, panel>>

\* The else branch of stopTimer: no timer has the label.
StopTimerElseSync(label) ==
    /\ UpdateViews(timers, tasks)
    /\ last' = Last("stopTimer", label, "", 0, "", 0, {}, webviewView)
    /\ UNCHANGED intervals
StopTimerElse(label) ==
    /\ last' = Last("stopTimer", label, "", 0, "", 0, {ErrorNotFound(label)}, FALSE)
    /\ UNCHANGED <<timers, intervals, store, timerText, taskText, panel>>

\* stopTimer(label)
StopTimer(label) ==
    /\ IF FindTimer(timers, label) # 0
       THEN LET timer == timers[FindTimer(timers, label)]
            IN  /\ intervals' = ClearInterval(intervals, timer.timerInterval)
                /\ UpdateViews(RemoveLabel(timers, label), tasks)
                /\ last' = Last("stopTimer", label, label, timer.timerInterval, "",
                                timer.endTime, {InfoStopped(label)}, webviewView)
       ELSE StopTimerElse(label)
    /\ UNCHANGED <<now, advances, tasks, webviewView, pending>>

\* this.timers.forEach(timer => clearInterval(timer.timerInterval))
\* A loop that stops after the first timer.
ClearAllFirst(ivs, ts) ==
    IF ts = <<>> THEN ivs ELSE ClearInterval(ivs, ts[1].timerInterval)

RECURSIVE ClearAll(_, _)
ClearAll(ivs, ts) ==
    IF ts = <<>> THEN ivs
    ELSE ClearAll(ClearInterval(ivs, ts[1].timerInterval), Tail(ts))

\* clearTimers()
ClearTimers ==
    /\ intervals' = ClearAll(intervals, timers)
    /\ UpdateViews(<<>>, tasks)
    /\ last' = Last("clearTimers", "", "", Len(timers), "", 0, {InfoCleared},
                     webviewView)
    /\ UNCHANGED <<now, advances, tasks, webviewView, pending>>

\* setInterval: the callback runs again one period after this run.
Rearm(ivs, iv) == (ivs \ {iv}) \cup {[iv EXCEPT !.due = now + TickMs]}

\* The callback armed by startTimer.
TickCreated(iv) ==
    IF IsExpired(iv.endTime, now)
    THEN /\ intervals' = ClearInterval(intervals, iv.id)
         /\ UpdateStatusBar(RemoveLabel(timers, iv.label), tasks)
         /\ last' = Last("tick", "", iv.label, iv.id, iv.kind, iv.endTime,
                         {Notify(iv.label), InfoCompleted(iv.label)}, FALSE)
    ELSE /\ intervals' = Rearm(intervals, iv)
         /\ UpdateStatusBar(timers, tasks)
         /\ last' = Last("tick", "", iv.label, iv.id, iv.kind, iv.endTime, {}, FALSE)

\* The callback armed by restoreTimers.
TickRestored(iv) ==
    /\ intervals' = IF IsExpired(iv.endTime, now)
                    THEN ClearInterval(intervals, iv.id)
                    ELSE Rearm(intervals, iv)
    /\ last' = Last("tick", "", iv.label, iv.id, iv.kind, iv.endTime, {}, FALSE)
    /\ UNCHANGED <<timers, timerText, taskText>>

\* One run of an armed periodic callback, no earlier than it is due.
Tick(iv) ==
    /\ iv \in intervals
    /\ now >= iv.due
    /\ IF iv.kind = "created" THEN TickCreated(iv) ELSE TickRestored(iv)
    /\ UNCHANGED <<now, advances, tasks, store, webviewView, panel, pending>>

\* The wall clock moves while the loop is idle.
Advance(d) ==
    /\ now' = now + d
    /\ advances' = advances + 1
    /\ last' = Idle("advance")
    /\ UNCHANGED <<timers, intervals, tasks, store, timerText, taskText,
                   webviewView, panel, pending>>

\* ----------------------------------------------------------------- webview
\* resolveWebviewView(webviewView)
ResolveWebviewView ==
    /\ ~webviewView
    /\ webviewView' = TRUE
    /\ last' = Idle("resolveWebviewView")
    /\ UNCHANGED <<now, advances, timers, intervals, tasks, store, timerText,
                   taskText, panel, pending>>

\* The panel's 'getData' message: sendDataToWebview().
GetData ==
    /\ webviewView
    /\ SendDataToWebview(timers, tasks)
    /\ last' = Last("getData", "", "", 0, "", 0, {}, TRUE)
    /\ UNCHANGED <<now, advances, timers, intervals, tasks, store, timerText,
                   taskText, webviewView, pending>>

\* ----------------------------------------------------------------- restart
\* restoreTimers(): the stored entries that are not expired, in stored order.
KeptTimers(stored, t) == SelectSeq(stored, LAMBDA s : ~IsExpired(s.endTime, t))

RestoredTimers(stored, t) ==
    LET kept == KeptTimers(stored, t)
    IN  [i \in DOMAIN kept |->
            [label |-> kept[i].label, endTime |-> kept[i].endTime, timerInterval |-> i]]

\* The callbacks restoreTimers arms, one per timer it pushes.
RestoredIntervals(stored, t) ==
    LET kept == KeptTimers(stored, t)
    IN  {[id |-> i, kind |-> "restored", label |-> kept[i].label,
          endTime |-> kept[i].endTime, due |-> t + TickMs] : i \in DOMAIN kept}

\* The messages restoreTimers shows for the entries that are expired.
RestoredMessages(stored, t) ==
    {InfoCompleted(stored[i].label) :
        i \in {j \in DOMAIN stored : IsExpired(stored[j].endTime, t)}}

\* restoreTasks()
RestoreTasks(st) == st.tasks

\* The state the constructor leaves on the persisted store st at time t.
Activated(st, t) ==
    /\ timers = SortTimers(RestoredTimers(st.activeTimers, t))
    /\ intervals = RestoredIntervals(st.activeTimers, t)
    /\ timerText = TimerStatusText(RestoredTimers(st.activeTimers, t), t)
    /\ taskText = TaskStatusText(<<>>)
    /\ tasks = RestoreTasks(st)
    /\ store = st
    /\ webviewView = FALSE
    /\ panel = NoMessage
    /\ pending = <<>>
    /\ last = Last("activate", "", "", 0, "", 0, RestoredMessages(st.activeTimers, t), FALSE)

\* The editor restarts: the old process ends with its callbacks, prompts and
\* panel, and the constructor runs on the persisted store: initializeStatusBar,
\* restoreTimers (whose updateStatusBar still sees this.tasks = []), restoreTasks.
Restart ==
    /\ intervals' = RestoredIntervals(store.activeTimers, now)
    /\ UpdateStatusBar(RestoredTimers(store.activeTimers, now), <<>>)
    /\ tasks' = RestoreTasks(store)
    /\ webviewView' = FALSE
    /\ panel' = NoMessage
    /\ pending' = <<>>
    /\ last' = Last("activate", "", "", 0, "", 0,
                    RestoredMessages(store.activeTimers, now), FALSE)
    /\ UNCHANGED <<now, advances, store>>

\* ------------------------------------------------------------ timer runs
\* Task lists an earlier session can have persisted.
PersistedTasks == {<<[description |-> "x", completed |-> TRUE]>>}

\* Activation on a store that holds no timers and one of the task lists.
Init ==
    /\ now = 0
    /\ advances = 0
    /\ \E tk \in PersistedTasks : Activated([activeTimers |-> <<>>, tasks |-> tk], 0)

\* The timer commands, the callbacks, the clock and restarts; no panel is opened.
Next ==
    \/ Len(pending) < MaxPending /\ StartTimerCommand
    \/ \E p \in DOMAIN pending, label \in LabelInputs : StartTimerLabel(p, label)
    \/ /\ Len(timers) < MaxTimers
       /\ \E p \in DOMAIN pending, minutesStr \in MinuteInputs : StartTimerMinutes(p, minutesStr)
    \/ \E p \in DOMAIN pending : PromptCancel(p)
    \/ \E label \in StopInputs : StopTimer(label)
    \/ ClearTimers
    \/ \E iv \in intervals : Tick(iv)
    \/ advances < MaxAdvances /\ \E d \in Delays : Advance(d)
    \/ Restart

Spec == Init /\ [][Next]_vars

\* ------------------------------------------------------------- task runs
\* Timer lists an earlier session can have persisted.
PersistedTimers == {<<[label |-> "A", endTime |-> MinuteMs]>>}

\* Activation on a store that holds no tasks and one of the timer lists.
TaskInit ==
    /\ now = 0
    /\ advances = 0
    /\ \E ts \in PersistedTimers : Activated([activeTimers |-> ts, tasks |-> <<>>], 0)

\* The task commands, with the callbacks, the clock, the panel and restarts.
TaskNext ==
    \/ Len(pending) < MaxPending /\ AddTaskCommand
    \/ \E p \in DOMAIN pending, task \in DescriptionInputs :
          (task = "" \/ Len(tasks) < MaxTasks) /\ AddTaskResolve(p, task)
    \/ \E index \in IndexInputs, description \in DescriptionInputs :
          EditTask(index, description)
    \/ \E index \in IndexInputs : ToggleTask(index)
    \/ \E index \in IndexInputs : DeleteTask(index)
    \/ \E p \in DOMAIN pending : PromptCancel(p)
    \/ \E iv \in intervals : Tick(iv)
    \/ advances < MaxTaskAdvances /\ Advance(TickMs)
    \/ ResolveWebviewView
    \/ GetData
    \/ Restart

TaskSpec == TaskInit /\ [][TaskNext]_vars

\* ------------------------------------------------------------- panel runs
\* Bounds of the runs in which every command, the panel, the callbacks, the
\* clock and restarts interleave.
MaxViewTimers == 1
MaxViewTasks == 1
MaxViewPending == 1
MaxViewAdvances == 1
\* One period of the callbacks, or the whole minute of a timer.
ViewDelays == {TickMs, MinuteMs}

\* Activation on an empty store.
ViewInit ==
    /\ now = 0
    /\ advances = 0
    /\ Activated([activeTimers |-> <<>>, tasks |-> <<>>], 0)

\* Every command and event of the extension.
ViewNext ==
    \/ Len(pending) < MaxViewPending /\ StartTimerCommand
    \/ \E p \in DOMAIN pending, label \in LabelInputs : StartTimerLabel(p, label)
    \/ /\ Len(timers) < MaxViewTimers
       /\ \E p \in DOMAIN pending, minutesStr \in MinuteInputs : StartTimerMinutes(p, minutesStr)
    \/ \E label \in StopInputs : StopTimer(label)
    \/ ClearTimers
    \/ Len(pending) < MaxViewPending /\ AddTaskCommand
    \/ \E p \in DOMAIN pending, task \in DescriptionInputs :
          (task = "" \/ Len(tasks) < MaxViewTasks) /\ AddTaskResolve(p, task)
    \/ \E index \in IndexInputs, description \in DescriptionInputs :
          EditTask(index, description)
    \/ \E index \in IndexInputs : ToggleTask(index)
    \/ \E index \in IndexInputs : DeleteTask(index)
    \/ \E p \in DOMAIN pending : PromptCancel(p)
    \/ \E iv \in intervals : Tick(iv)
    \/ advances < MaxViewAdvances /\ \E d \in ViewDelays : Advance(d)
    \/ ResolveWebviewView
    \/ GetData
    \/ Restart

ViewSpec == ViewInit /\ [][ViewNext]_vars

\* ------------------------------------------------------------- mixed runs
\* Bounds of the runs in which the task commands interleave with two timers.
MaxMixedTimers == 2
MaxMixedTasks == 1
MaxMixedPending == 1
MaxMixedAdvances == 1

\* Activation on an empty store.
MixedInit ==
    /\ now = 0
    /\ advances = 0
    /\ Activated([activeTimers |-> <<>>, tasks |-> <<>>], 0)

\* The timer and the task commands, the callbacks, the clock and restarts; no
\* panel is opened.
MixedNext ==
    \/ Len(pending) < MaxMixedPending /\ StartTimerCommand
    \/ \E p \in DOMAIN pending, label \in LabelInputs : StartTimerLabel(p, label)
    \/ /\ Len(timers) < MaxMixedTimers
       /\ \E p \in DOMAIN pending, minutesStr \in MinuteInputs : StartTimerMinutes(p, minutesStr)
    \/ \E label \in StopInputs : StopTimer(label)
    \/ ClearTimers
    \/ Len(pending) < MaxMixedPending /\ AddTaskCommand
    \/ \E p \in DOMAIN pending, task \in DescriptionInputs :
          (task = "" \/ Len(tasks) < MaxMixedTasks) /\ AddTaskResolve(p, task)
    \/ \E index \in IndexInputs, description \in DescriptionInputs :
          EditTask(index, description)
    \/ \E index \in IndexInputs : ToggleTask(index)
    \/ \E index \in IndexInputs : DeleteTask(index)
    \/ \E p \in DOMAIN pending : PromptCancel(p)
    \/ \E iv \in intervals : Tick(iv)
    \/ advances < MaxMixedAdvances /\ \E d \in ViewDelays : Advance(d)
    \/ Restart

MixedSpec == MixedInit /\ [][MixedNext]_vars

\* ================================================================== claims
\* The timer record that holds interval handle id, if any.
HoldsInterval(ts, id) == \E i \in DOMAIN ts : ts[i].timerInterval = id

\* C1: for every timer in the active list, created in this session or re-armed
\* by the startup restore, the first tick of its callback at which
\* now >= endTime removes it from the active list.
C1_ExpiredTickRemoves ==
    (last.op = "tick" /\ now >= last.endTime) => ~HoldsInterval(timers, last.n)

\* C2: between operations the persisted activeTimers entry equals the list of
\* {label, endTime} pairs of the in-memory active timer list, also after a
\* tick removed an expired timer and after the restore dropped expired entries.
C2_PersistedTimersMirror == store.activeTimers = SerializeTimers(timers)

\* C3: a timer the startup restore re-armed emits the completion notification
\* at the tick where it reaches endTime, as a timer created in the session does.
C3_RestoredTimerNotifies ==
    (last.op = "tick" /\ last.kind = "restored" /\ now >= last.endTime)
        => {Notify(last.label), InfoCompleted(last.label)} \subseteq last.msgs

\* C4: in every reachable state no two timers in the active list have the same
\* label, under start-timer (also with several prompts pending at once), stop,
\* clear-all, tick and restart.
C4_UniqueLabels ==
    \A i, j \in DOMAIN timers : i # j => timers[i].label # timers[j].label

\* A start-timer command just made its label unique by appending a marker while
\* another start-timer command was suspended at a prompt.
C4_Witness ==
    /\ last.op = "startTimer" /\ last.req # last.label
    /\ Len(timers) = 2
    /\ \E p \in DOMAIN pending : pending[p].cmd = "startTimer"

\* L followed by k '*' characters.
RECURSIVE Stars(_, _)
Stars(label, k) == IF k = 0 THEN label ELSE Stars(label, k - 1) \o "*"

\* C5: creating a timer with requested label L yields a timer whose label is L
\* followed by k '*', k the smallest number >= 0 for which no timer active at
\* that moment has that label.
C5_SmallestFreeLabel ==
    [][last'.op = "startTimer" =>
         /\ \E k \in 0 .. Len(timers) :
               /\ last'.label = Stars(last'.req, k)
               /\ ~HasLabel(timers, Stars(last'.req, k))
               /\ \A j \in 0 .. (k - 1) : HasLabel(timers, Stars(last'.req, j))
         /\ \E i \in DOMAIN timers' :
               /\ timers'[i].timerInterval = last'.n
               /\ timers'[i].label = last'.label
         /\ Len(timers') = Len(timers) + 1]_vars

\* "A" was requested while "A" was active: the new timer is "A*", next to "A".
C5_Witness ==
    /\ last.op = "startTimer" /\ last.req = "A" /\ last.label = "A*"
    /\ HasLabel(timers, "A") /\ HasLabel(timers, "A*")

\* C6: every armed periodic callback belongs to a timer that is in the active
\* list, so no tick fires for a timer that stop, clear-all or an expiry removed.
C6_ArmedCallbacksAreActive ==
    \A iv \in intervals :
        \E i \in DOMAIN timers :
            /\ timers[i].timerInterval = iv.id
            /\ timers[i].label = iv.label
            /\ timers[i].endTime = iv.endTime

\* A timer was just stopped while another one stays armed.
C6_Witness ==
    /\ last.op = "stopTimer" /\ last.n # 0
    /\ ~HoldsInterval(timers, last.n)
    /\ Len(timers) = 1 /\ intervals # {}

\* C7: a restart rebuilds the active list as exactly the persisted entries with
\* endTime > now, labels and endTimes identical, each with an armed callback;
\* an entry with endTime <= now is not added and gets no callback.  (The state
\* right after activation: the constructor changes neither the store nor the
\* clock, and every later operation replaces last.)
C7_RestoreRoundTrip ==
    last.op = "activate" =>
        /\ SerializeTimers(timers) =
              SelectSeq(store.activeTimers, LAMBDA s : s.endTime > now)
        /\ \A i \in DOMAIN timers :
              \E iv \in intervals :
                 /\ iv.id = timers[i].timerInterval
                 /\ iv.label = timers[i].label
                 /\ iv.endTime = timers[i].endTime
        /\ Cardinality(intervals) = Len(timers)

\* A restart kept one persisted timer and dropped an expired one.
C7_Witness ==
    /\ last.op = "activate"
    /\ Len(store.activeTimers) = 2 /\ Len(timers) = 1
    /\ InfoCompleted(store.activeTimers[1].label) \in last.msgs

\* C8: the persisted tasks entry equals the in-memory task list after every
\* task operation, and a restart restores the same descriptions, completed
\* flags and order.
C8_TasksPersisted ==
    /\ [](store.tasks = tasks)
    /\ [][last'.op = "activate" => tasks' = tasks]_vars

\* A restart restored a list of two tasks that differ in their completed flag.
C8_Witness ==
    /\ last.op = "activate"
    /\ Len(tasks) = 2 /\ tasks[1].completed /\ ~tasks[2].completed

\* C9: stop(label) with a label no active timer has leaves the task list, the
\* active timer list, the armed callbacks and the persisted store unchanged and
\* emits an error message.
C9_StopUnknownLabel ==
    [][(last'.op = "stopTimer" /\ ~HasLabel(timers, last'.req)) =>
         /\ UNCHANGED <<tasks, timers, intervals, store>>
         /\ last'.msgs = {ErrorNotFound(last'.req)}]_vars

\* stop was called with a label nobody has while a timer was active.
C9_Witness ==
    /\ last.op = "stopTimer" /\ last.n = 0
    /\ ~HasLabel(timers, last.req)
    /\ Len(timers) > 0 /\ Len(tasks) > 0 /\ intervals # {}

\* C10: edit, toggle and delete with an index < 0 or >= the task list length
\* leave the task list, the timer list, the persisted store and both status-bar
\* texts unchanged, post nothing to the panel and show no error.
C10_OutOfRangeIndex ==
    [][(/\ last'.op \in {"editTask", "toggleTask", "deleteTask"}
        /\ (last'.n < 0 \/ last'.n >= Len(tasks))) =>
         /\ UNCHANGED <<tasks, timers, store, timerText, taskText, panel>>
         /\ ~last'.posted
         /\ last'.msgs = {}]_vars

\* delete(-1) was called on a non-empty task list with a panel attached.
C10_Witness ==
    /\ last.op = "deleteTask" /\ last.n = -1
    /\ Len(tasks) > 0 /\ Len(timers) > 0 /\ webviewView

\* C11: delete(i) with 0 <= i < length leaves a task list one shorter in which
\* the tasks before position i keep their position, the tasks after it move
\* down by one, and every remaining task keeps its description and completed
\* flag.
C11_DeleteShifts ==
    [][(/\ last'.op = "deleteTask"
        /\ last'.n >= 0 /\ last'.n < Len(tasks)) =>
         /\ Len(tasks') = Len(tasks) - 1
         /\ \A j \in 1 .. last'.n : tasks'[j] = tasks[j]
         /\ \A j \in (last'.n + 2) .. Len(tasks) : tasks'[j - 1] = tasks[j]]_vars

\* delete(0) removed the first of two tasks and the completed one moved down.
C11_Witness ==
    /\ last.op = "deleteTask" /\ last.n = 0
    /\ Len(tasks) = 1 /\ tasks[1].completed
    /\ store.tasks = tasks

\* C12: in every quiescent state, the state right after a startup that restored
\* a non-empty persisted task list included, the task status-bar text is
\* "<c>/<n> tasks completed" with n the number of tasks and c the number of
\* completed ones when n > 0, and "No tasks" when n = 0.
C12_TaskStatusText == taskText = TaskStatusText(tasks)

\* The operation that just ran recomputed the timer status-bar text.
TimerTextRecomputed ==
    \/ last.op \in {"startTimer", "clearTimers", "activate"}
    \/ last.op = "stopTimer" /\ last.label # ""
    \/ last.op = "tick" /\ last.kind = "created"

\* C13: whenever the timer status-bar text is recomputed with at least one
\* active timer, it shows the number of active timers and the label of a timer
\* whose endTime is the smallest of all active timers; with no active timer it
\* is "No active timers".
C13_SoonestTimerShown ==
    TimerTextRecomputed =>
        IF timers = <<>>
        THEN timerText = NoTimersText
        ELSE /\ timerText.text = "active timer(s)"
             /\ timerText.count = Len(timers)
             /\ \E k \in DOMAIN timers :
                    /\ timers[k].label = timerText.label
                    /\ \A j \in DOMAIN timers :
                          timers[k].endTime <= timers[j].endTime

\* The timer created last ends before the one created first, and is shown.
C13_Witness ==
    /\ last.op = "startTimer" /\ Len(timers) = 2
    /\ timerText.label = last.label /\ timerText.count = 2
    /\ \E j \in DOMAIN timers : timers[j].endTime > last.endTime

\* C14: when a timer created by start-timer is the only active timer, its
\* endTime has passed and its next tick fires, the active timer list is empty
\* and the timer status-bar text is "No active timers" afterwards.
C14_LastTimerExpires ==
    [][(/\ last'.op = "tick" /\ last'.kind = "created"
        /\ now' >= last'.endTime
        /\ Len(timers) = 1
        /\ timers[1].timerInterval = last'.n) =>
         /\ timers' = <<>>
         /\ timerText' = NoTimersText]_vars

\* The tick of a created timer found it expired and left no timer behind.
C14_Witness ==
    /\ last.op = "tick" /\ last.kind = "created"
    /\ now >= last.endTime /\ last.endTime > 0
    /\ InfoCompleted(last.label) \in last.msgs
    /\ timers = <<>> /\ timerText = NoTimersText

\* C15: stop(label) with the label of an active timer removes exactly that
\* timer and cancels its callback; every other active timer keeps its label,
\* endTime and armed callback, the task list is unchanged, and the persisted
\* activeTimers no longer contains the label.
C15_StopRemovesOne ==
    [][(last'.op = "stopTimer" /\ HasLabel(timers, last'.req)) =>
         LET stopped == CHOOSE k \in DOMAIN timers : timers[k].label = last'.req
         IN  /\ Len(timers') = Len(timers) - 1
             /\ \A j \in DOMAIN timers' : timers'[j].label # last'.req
             /\ \A k \in DOMAIN timers \ {stopped} :
                    \E j \in DOMAIN timers' : timers'[j] = timers[k]
             /\ intervals' =
                    {iv \in intervals : iv.id # timers[stopped].timerInterval}
             /\ tasks' = tasks
             /\ \A k \in DOMAIN store'.activeTimers :
                    store'.activeTimers[k].label # last'.req]_vars

\* One of two timers was stopped; the other one is still armed.
C15_Witness ==
    /\ last.op = "stopTimer" /\ last.label = last.req
    /\ last.msgs = {InfoStopped(last.req)}
    /\ Len(timers) = 1
    /\ \E iv \in intervals : iv.id = timers[1].timerInterval
    /\ Len(tasks) > 0

\* C16: after clear-all the active timer list is empty, no periodic callback
\* is armed, the persisted activeTimers is the empty list, and the task list
\* and the persisted tasks are unchanged.
C16_ClearAll ==
    [][last'.op = "clearTimers" =>
         /\ timers' = <<>>
         /\ intervals' = {}
         /\ store'.activeTimers = <<>>
         /\ tasks' = tasks
         /\ store'.tasks = store.tasks]_vars

\* clear-all ran with two active timers and a task.
C16_Witness ==
    /\ last.op = "clearTimers" /\ last.n = 2
    /\ timers = <<>> /\ intervals = {}
    /\ Len(tasks) > 0 /\ store.tasks = tasks

\* C17: a start-timer command whose label prompt or minutes prompt returns
\* empty or is dismissed, and an add-task command whose prompt returns empty or
\* is dismissed, leave the task list, the active timer list, the armed
\* callbacks and the persisted store unchanged.
C17_AbandonedPrompt ==
    [][(\/ last'.op \in {"startTimer.cancel", "addTask.cancel"}
        \/ last'.op = "startTimer.label" /\ Len(pending') < Len(pending)
        \/ last'.op = "addTask" /\ last'.req = "") =>
         UNCHANGED <<tasks, timers, intervals, store>>]_vars

\* The add-task prompt was submitted empty while a timer and a task existed.
C17_Witness ==
    /\ last.op = "addTask" /\ last.req = ""
    /\ Len(timers) > 0 /\ intervals # {}
    /\ Len(tasks) > 0 /\ store.tasks = tasks

\* The labels of a list of timers or of timer entries of a message, in order.
Labels(ts) == [i \in DOMAIN ts |-> ts[i].label]

\* The step is a mutating operation other than the tick of an expired timer.
MutatingCommand ==
    \/ /\ last'.op \in {"editTask", "toggleTask", "deleteTask"}
       /\ last'.n >= 0 /\ last'.n < Len(tasks)
    \/ last'.op = "addTask" /\ last'.req # ""
    \/ last'.op \in {"startTimer", "clearTimers"}
    \/ last'.op = "stopTimer" /\ HasLabel(timers, last'.req)

\* The step is a tick that removes an expired timer.
RemovingTick == last'.op = "tick" /\ Len(timers') < Len(timers)

\* After the step the last message pushed to the panel is current.
PanelCurrent ==
    /\ panel'.command = "update"
    /\ panel'.tasks = tasks'
    /\ Labels(panel'.timers) = Labels(timers')

\* C18: while a panel view is attached, after every mutating operation (task
\* add, edit, toggle, delete, timer create, stop, clear-all, and the tick that
\* removes an expired timer) the most recent update message pushed to the panel
\* carries exactly the current task list and exactly the labels of the current
\* active timers.
C18_PanelFollowsState ==
    [][(webviewView' /\ (MutatingCommand \/ RemovingTick)) => PanelCurrent]_vars

\* C19: every tick of an active timer whose remaining time is > 0, of a created
\* and of a restored timer alike, triggers a view sync: the timer status-bar
\* text is recomputed and, when a panel is attached, an update message is
\* pushed to it.
C19_TickSyncsViews ==
    (last.op = "tick" /\ last.endTime - now > 0) =>
        /\ timerText = TimerStatusText(timers, now)
        /\ webviewView => panel = UpdateMessage(timers, tasks, now)

\* C20: an add-task command whose prompt returns a non-empty description
\* appends exactly one task {description, completed: false} at the end of the
\* task list as it is when the prompt resolves, and changes no earlier task,
\* also when other task operations or ticks ran while the prompt was open.
C20_AddAppends ==
    [][(last'.op = "addTask" /\ last'.req # "") =>
         /\ Len(tasks') = Len(tasks) + 1
         /\ tasks'[Len(tasks')] = [description |-> last'.req, completed |-> FALSE]
         /\ \A j \in DOMAIN tasks : tasks'[j] = tasks[j]]_vars

\* A task was added behind a completed one while another prompt was open.
C20_Witness ==
    /\ last.op = "addTask" /\ last.req # ""
    /\ Len(tasks) = 2 /\ tasks[1].completed
    /\ tasks[2] = [description |-> last.req, completed |-> FALSE]
    /\ pending # <<>>

\* C21: edit(i, d) with 0 <= i < length sets the description of the task at
\* index i to d and changes nothing else: its completed flag, the length of the
\* list and every other task are unchanged.
C21_EditFrame ==
    [][(/\ last'.op = "editTask"
        /\ last'.n >= 0 /\ last'.n < Len(tasks)) =>
         /\ Len(tasks') = Len(tasks)
         /\ tasks'[last'.n + 1].description = last'.req
         /\ tasks'[last'.n + 1].completed = tasks[last'.n + 1].completed
         /\ \A j \in DOMAIN tasks : j # last'.n + 1 => tasks'[j] = tasks[j]]_vars

\* The second of two tasks, a completed one, was edited.
C21_Witness ==
    /\ last.op = "editTask" /\ last.n = 1
    /\ Len(tasks) = 2 /\ tasks[2].completed
    /\ tasks[2].description = last.req

\* C22: the task operations (add, edit, toggle, delete) never change the
\* active timer list, neither its contents nor its order, nor the set of armed
\* callbacks; the timer operations (create, tick, stop, clear-all) never change
\* the task list.
C22_TaskTimerFrames ==
    [][/\ last'.op \in {"addTask", "editTask", "toggleTask", "deleteTask"} =>
            (timers' = timers /\ intervals' = intervals)
       /\ last'.op \in {"startTimer", "tick", "stopTimer", "clearTimers"} =>
            tasks' = tasks]_vars

\* A task was toggled while two timers with different endTimes were armed.
C22_Witness ==
    /\ last.op = "toggleTask" /\ last.n = 0
    /\ Len(tasks) = 1 /\ tasks[1].completed
    /\ Len(timers) = 2 /\ timers[1].endTime < timers[2].endTime
    /\ \A i \in DOMAIN timers : \E iv \in intervals : iv.id = timers[i].timerInterval

\* C23: across any sequence of operations and restarts the completion message
\* of a given timer (one label and endTime) is emitted at most once: a timer
\* whose completion was announced by its expiry tick in one session is not
\* announced again by the startup restore of a later session. Stated for the
\* restart that follows the announcing tick directly.
C23_CompletionOnce ==
    [][(/\ last.op = "tick"
        /\ InfoCompleted(last.label) \in last.msgs
        /\ last'.op = "activate") =>
         ~(/\ InfoCompleted(last.label) \in last'.msgs
           /\ \E k \in DOMAIN store'.activeTimers :
                 /\ store'.activeTimers[k].label = last.label
                 /\ store'.activeTimers[k].endTime = last.endTime
                 /\ IsExpired(store'.activeTimers[k].endTime, now'))]_vars

\* C24: whenever the timer status-bar text is recomputed, the remaining time
\* it shows is non-negative (minutes >= 0 and 0 <= seconds <= 59), under every
\* firing order of the ticks of different timers and for restored timers too.
C24_RemainingNonNegative ==
    TimerTextRecomputed =>
        /\ timerText.minutesLeft >= 0
        /\ timerText.secondsLeft >= 0 /\ timerText.secondsLeft <= 59

\* C25: in every reachable state every task of the task list has a non-empty
\* description, under any sequence of add, edit, toggle and delete.
C25_NonEmptyDescription ==
    \A i \in DOMAIN tasks : tasks[i].description # ""

====
